---------------------------- MODULE Spec2Model ----------------------------
(***************************************************************************)
(* Model of portable/temperature.c: the SHT31 sampling thread              *)
(* (temperatureThread), its timer set-up (setupTimer), the timer callback  *)
(* (postSem), the codec (SHT3X_CalcTemperature) and a console-side reader  *)
(* of the published pair {temperatureC, temperatureF}.                     *)
(***************************************************************************)
EXTENDS Integers, Sequences, FiniteSets, TLC

(***************************************************************************)
(* Single-precision arithmetic.  A C float is modelled by its exact value  *)
(* m * 2^e, kept in canonical form: m = 0 and e = 0, or m odd.  Every      *)
(* operation computes the exact result and rounds it to a 24-bit           *)
(* significand, to nearest, ties to even (IEEE-754 binary32, the float of  *)
(* the ARM EABI).  The values of this program stay far from the exponent   *)
(* limits, so neither overflow nor subnormals are modelled.                *)
(***************************************************************************)
Pow2(n) == 2 ^ n

Abs(x) == IF x < 0 THEN -x ELSE x

Sign(x) == IF x < 0 THEN -1 ELSE 1

RECURSIVE BitLen(_)
BitLen(n) == IF n = 0 THEN 0 ELSE 1 + BitLen(n \div 2)

RECURSIVE Canon(_, _)
Canon(m, e) ==
    IF m = 0 THEN [m |-> 0, e |-> 0]
    ELSE IF Abs(m) % 2 = 0 THEN Canon(Sign(m) * (Abs(m) \div 2), e + 1)
    ELSE [m |-> m, e |-> e]

\* The float nearest to sgn * (n + f) * 2^e, where 0 <= f < 1 and f > 0 exactly
\* when sticky; n carries at least 25 bits whenever sticky is set.
RoundToFloat(sgn, n, e, sticky) ==
    LET len == BitLen(n)
    IN  IF len <= 24 THEN Canon(sgn * n, e)
        ELSE LET shift == len - 24
                 q     == n \div Pow2(shift)
                 rem   == n % Pow2(shift)
                 half  == Pow2(shift - 1)
                 up    == \/ rem > half
                          \/ rem = half /\ sticky
                          \/ rem = half /\ ~sticky /\ q % 2 = 1
             IN  Canon(sgn * (IF up THEN q + 1 ELSE q), e + shift)

\* (float) of an integer of at most 24 bits: exact.
FromInt(i) == Canon(i, 0)

FNeg(a) == [m |-> -a.m, e |-> a.e]

\* a * b; the product of the two significands stays below 2^31 here because
\* one factor is always a small constant (175.0f, 9).
FMul(a, b) ==
    RoundToFloat(Sign(a.m) * Sign(b.m), Abs(a.m) * Abs(b.m), a.e + b.e, FALSE)

\* Long division: the quotient bits of (q + r/d) are produced one at a time
\* until the quotient carries 26 bits.
RECURSIVE DivBits(_, _, _, _)
DivBits(q, r, d, k) ==
    IF q >= Pow2(25) \/ r = 0 THEN [q |-> q, r |-> r, k |-> k]
    ELSE DivBits(2 * q + (IF 2 * r >= d THEN 1 ELSE 0), (2 * r) % d, d, k + 1)

\* a / b, b # 0.
FDiv(a, b) ==
    IF a.m = 0 THEN a
    ELSE LET n == Abs(a.m)
             d == Abs(b.m)
             s == DivBits(n \div d, n % d, d, 0)
         IN  RoundToFloat(Sign(a.m) * Sign(b.m), s.q, a.e - b.e - s.k, s.r # 0)

\* |a| >= |b| for non-zero a and b: compare the position of the leading bit,
\* then the significands aligned to 24 bits.
MagGeq(a, b) ==
    LET la == BitLen(Abs(a.m))
        lb == BitLen(Abs(b.m))
    IN  IF a.e + la # b.e + lb THEN a.e + la > b.e + lb
        ELSE Abs(a.m) * Pow2(24 - la) >= Abs(b.m) * Pow2(24 - lb)

\* a + b: the larger operand is widened to 27 bits, the smaller one aligned to
\* it (bits shifted out are remembered in sticky), and the sum rounded.
FAdd(a, b) ==
    IF a.m = 0 THEN b
    ELSE IF b.m = 0 THEN a
    ELSE LET x      == IF MagGeq(a, b) THEN a ELSE b
             y      == IF MagGeq(a, b) THEN b ELSE a
             up     == 27 - BitLen(Abs(x.m))
             xn     == Abs(x.m) * Pow2(up)
             xe     == x.e - up
             s      == xe - y.e
             ys     == IF s <= 0 THEN Abs(y.m) * Pow2(-s)
                       ELSE IF s >= 25 THEN 0
                       ELSE Abs(y.m) \div Pow2(s)
             sticky == s > 0
             same   == Sign(x.m) = Sign(y.m)
             n      == IF same THEN xn + ys
                       ELSE IF sticky THEN xn - ys - 1
                       ELSE xn - ys
         IN  RoundToFloat(Sign(x.m), n, xe, sticky)

FSub(a, b) == FAdd(a, FNeg(b))

\* (int)a: conversion to int truncates toward zero.
FTrunc(a) ==
    IF a.e >= 0 THEN a.m * Pow2(a.e)
    ELSE IF -a.e >= 24 THEN 0
    ELSE Sign(a.m) * (Abs(a.m) \div Pow2(-a.e))

\* a >= i for a float a and an integer i (an exact comparison of values).
FGeqInt(a, i) == FSub(a, FromInt(i)).m >= 0

(***************************************************************************)
(* Program constants.                                                      *)
(***************************************************************************)
HIGH_TEMP == 30

SHT31_ADDR == 68

SHT31_RE == 44

SHT31_CLK_STR == 6

\* The largest value of a uint16_t.
UINT16_MAX == 65535

Board_GPIO_LED_OFF == "LED_OFF"

Board_GPIO_LED_ON == "LED_ON"

\* The content of an object that has not been given a value yet (a local
\* before its first assignment, a receive buffer after a failed transfer).
\* The program never reads one.  Each kind of object has its own mark, so
\* that a variable is compared with values of its own kind only: a buffer
\* holds the one-element sequence, a structure or a float the one-field
\* record, an integer a number that no integer of the program takes.
Indeterminate == "indeterminate"

IndeterminateSeq == <<Indeterminate>>

IndeterminateRec == [indeterminate |-> TRUE]

IndeterminateInt == 0 - 2

(***************************************************************************)
(* Bounds of the model.                                                    *)
(***************************************************************************)
\* Timer expiries in one run.
MaxTicks == 3

\* Raw samples the sensor answers with: both ends of the range, the sample of
\* the end-to-end scenario, and the two values on either side of 30 degrees.
RawSamples == {0, 15000, 28086, 28087, 65535}

\* Bytes 2..5 of a received frame (CRC, humidity, CRC).
RxTails == {<<0, 0, 0, 0>>, <<161, 92, 38, 7>>}

RxFrames == {<<raw \div 256, raw % 256>> \o tail : raw \in RawSamples, tail \in RxTails}

\* One frame for every value of the two temperature bytes.
EveryRawFrames == {<<raw \div 256, raw % 256, 0, 0, 0, 0>> : raw \in 0 .. UINT16_MAX}

(***************************************************************************)
(* State.                                                                  *)
(***************************************************************************)
VARIABLES
    pc,              \* position of temperatureThread
    led,             \* level of Board_GPIO_LED0
    i2c,             \* the I2C handle: "NULL" or "open"
    i2cTransaction,  \* slaveAddress, writeCount, readCount
    txBuffer,
    rxBuffer,
    temperature,     \* the uint16_t local of temperatureThread
    temperatureC,
    temperatureF,
    temperatureMutex,\* owner: "none", "sampler" or "reader"
    semTimer,        \* count of the semaphore
    timerid,         \* "none", "created", "armed" or "deleted"
    retc,
    rpc,             \* position of the console-side reader
    readC,
    readF,
    \* history of the run
    rStampC,         \* iteration that stored the celsius the reader copied
    rStampF,         \* iteration that stored the fahrenheit the reader copied
    ticksPosted,     \* calls of postSem
    waitsDone,       \* sem_wait calls that returned 0
    cycles,          \* loop iterations started
    cmdCycles,       \* loop iterations whose command transfer was issued
    cmdOk,           \* outcome of this iteration's command transfer
    resOk,           \* outcome of this iteration's result transfer
    xfers,           \* the transfers of this iteration, as issued
    delayed,         \* usleep(2000) calls of this iteration
    atStart,         \* <<temperatureC, temperatureF, led>> at the top of the loop
    stampC,          \* iteration of the last store to temperatureC
    stampF,          \* iteration of the last store to temperatureF
    stampLed,        \* iteration of the last write of the LED by the loop
    lockedAtLed      \* owner of temperatureMutex at the last write of the LED

prog == <<pc, led, i2c, i2cTransaction, txBuffer, rxBuffer, temperature,
          temperatureC, temperatureF, temperatureMutex, semTimer, timerid, retc>>

reader == <<rpc, readC, readF>>

rhist == <<rStampC, rStampF>>

hist == <<ticksPosted, waitsDone, cycles, cmdCycles, cmdOk, resOk, xfers,
          delayed, atStart, stampC, stampF, stampLed, lockedAtLed>>

vars == <<prog, reader, rhist, hist>>

Halted == {"haltOpen", "haltTimer", "haltWait"}

\* temperatureC and temperatureF have static storage: zero at start-up.
Init ==
    /\ pc = "config"
    /\ led = "unconfigured"
    /\ i2c = "NULL"
    /\ i2cTransaction = IndeterminateRec
    /\ txBuffer = IndeterminateSeq
    /\ rxBuffer = IndeterminateSeq
    /\ temperature = IndeterminateInt
    /\ temperatureC = FromInt(0)
    /\ temperatureF = FromInt(0)
    /\ temperatureMutex = "none"
    /\ semTimer = IndeterminateInt
    /\ timerid = "none"
    /\ retc = IndeterminateInt
    /\ rpc = "idle"
    /\ readC = IndeterminateRec
    /\ readF = IndeterminateRec
    /\ rStampC = IndeterminateInt
    /\ rStampF = IndeterminateInt
    /\ ticksPosted = 0
    /\ waitsDone = 0
    /\ cycles = 0
    /\ cmdCycles = 0
    /\ cmdOk = "none"
    /\ resOk = "none"
    /\ xfers = <<>>
    /\ delayed = 0
    /\ atStart = IndeterminateSeq
    /\ stampC = 0
    /\ stampF = 0
    /\ stampLed = 0
    /\ lockedAtLed = "none"

(***************************************************************************)
(* The codec and the alert helpers.                                        *)
(***************************************************************************)
\* Mutant of SHT3X_CalcTemperature: the operands of the subtraction are
\* exchanged.
SHT3X_CalcTemperature_Reversed(rawValue) ==
    FSub(FromInt(45), FDiv(FMul(FromInt(175), FromInt(rawValue)), FromInt(65535)))

\* Mutant of SHT3X_CalcTemperature: the divisor is 2^16 instead of 2^16 - 1.
SHT3X_CalcTemperature_Pow16(rawValue) ==
    FSub(FDiv(FMul(FromInt(175), FromInt(rawValue)), FromInt(65536)), FromInt(45))

\* 175.0f * (float)rawValue / 65535.0f - 45.0f, evaluated left to right.
SHT3X_CalcTemperature(rawValue) ==
    FSub(FDiv(FMul(FromInt(175), FromInt(rawValue)), FromInt(65535)), FromInt(45))

\* temperatureC * 9 / 5 + 32: the int operands are converted to float.
CelsiusToFahrenheit(c) ==
    FAdd(FDiv(FMul(c, FromInt(9)), FromInt(5)), FromInt(32))

\* Mutant of RawOf: the value is formed from the bytes of the humidity
\* channel, rxBuffer[3] and rxBuffer[4].
RawOf_HumidityBytes(rx) == (rx[4] * 256 + rx[5]) % (UINT16_MAX + 1)

\* Mutant of RawOf: the two bytes are taken low byte first.
RawOf_LowByteFirst(rx) == (rx[2] * 256 + rx[1]) % (UINT16_MAX + 1)

\* (rxBuffer[0] << 8) | rxBuffer[1], stored in a uint16_t.
RawOf(rx) == (rx[1] * 256 + rx[2]) % (UINT16_MAX + 1)

\* The level GPIO_write leaves on Board_GPIO_LED0.
clearAlert(t) == Board_GPIO_LED_OFF

sendAlert(t) == Board_GPIO_LED_ON

(***************************************************************************)
(* temperatureThread: set-up.                                              *)
(***************************************************************************)
\* Mutant of ConfigLed: the pin is configured with its output high.
ConfigLed_High ==
    /\ pc = "config"
    /\ led' = Board_GPIO_LED_ON
    /\ pc' = "open"
    /\ UNCHANGED <<i2c, i2cTransaction, txBuffer, rxBuffer, temperature,
                   temperatureC, temperatureF, temperatureMutex, semTimer,
                   timerid, retc, reader, rhist, hist>>

\* GPIO_setConfig(Board_GPIO_LED0, GPIO_CFG_OUT_STD | GPIO_CFG_OUT_LOW)
ConfigLed ==
    /\ pc = "config"
    /\ led' = Board_GPIO_LED_OFF
    /\ pc' = "open"
    /\ UNCHANGED <<i2c, i2cTransaction, txBuffer, rxBuffer, temperature,
                   temperatureC, temperatureF, temperatureMutex, semTimer,
                   timerid, retc, reader, rhist, rhist, hist>>

\* Mutant of OpenBus: the handle is not tested against NULL.
OpenBus_NullNotTested ==
    /\ pc = "open"
    /\ \E h \in {"NULL", "open"} : i2c' = h
    /\ pc' = "initTransaction"
    /\ UNCHANGED <<led, i2cTransaction, txBuffer, rxBuffer, temperature,
                   temperatureC, temperatureF, temperatureMutex, semTimer,
                   timerid, retc, reader, rhist, hist>>

\* i2c = I2C_open(...); if (i2c == NULL) while (1);
OpenBus ==
    /\ pc = "open"
    /\ \E h \in {"NULL", "open"} :
          /\ i2c' = h
          /\ pc' = IF h = "NULL" THEN "haltOpen" ELSE "initTransaction"
    /\ UNCHANGED <<led, i2cTransaction, txBuffer, rxBuffer, temperature,
                   temperatureC, temperatureF, temperatureMutex, semTimer,
                   timerid, retc, reader, rhist, rhist, hist>>

\* i2cTransaction.slaveAddress = SHT31_ADDR; ... readCount = 0;
InitTransaction ==
    /\ pc = "initTransaction"
    /\ i2cTransaction' = [slaveAddress |-> SHT31_ADDR, writeCount |-> 2, readCount |-> 0]
    /\ pc' = "semInit"
    /\ UNCHANGED <<led, i2c, txBuffer, rxBuffer, temperature, temperatureC,
                   temperatureF, temperatureMutex, semTimer, timerid, retc,
                   reader, rhist, hist>>

\* setupTimer: retc = sem_init(sem, 0, 0); if (retc != 0) return(retc);
SemInit ==
    /\ pc = "semInit"
    /\ \E r \in {0, -1} :
          /\ retc' = r
          /\ semTimer' = IF r = 0 THEN 0 ELSE semTimer
          /\ pc' = IF r = 0 THEN "timerCreate" ELSE "setupReturn"
    /\ UNCHANGED <<led, i2c, i2cTransaction, txBuffer, rxBuffer, temperature,
                   temperatureC, temperatureF, temperatureMutex, timerid,
                   reader, rhist, hist>>

\* setupTimer: retc = timer_create(...); if (retc != 0) return(retc);
TimerCreate ==
    /\ pc = "timerCreate"
    /\ \E r \in {0, -1} :
          /\ retc' = r
          /\ timerid' = IF r = 0 THEN "created" ELSE timerid
          /\ pc' = IF r = 0 THEN "timerSettime" ELSE "setupReturn"
    /\ UNCHANGED <<led, i2c, i2cTransaction, txBuffer, rxBuffer, temperature,
                   temperatureC, temperatureF, temperatureMutex, semTimer,
                   reader, rhist, hist>>

\* Mutant of TimerSettime: the timer is not deleted when arming it fails.
TimerSettime_NoDelete ==
    /\ pc = "timerSettime"
    /\ \E r \in {0, -1} :
          /\ retc' = r
          /\ timerid' = IF r = 0 THEN "armed" ELSE timerid
    /\ pc' = "setupReturn"
    /\ UNCHANGED <<led, i2c, i2cTransaction, txBuffer, rxBuffer, temperature,
                   temperatureC, temperatureF, temperatureMutex, semTimer,
                   reader, rhist, hist>>

\* setupTimer: retc = timer_settime(...); if (retc != 0) { timer_delete; return }
\* return(0);
TimerSettime ==
    /\ pc = "timerSettime"
    /\ \E r \in {0, -1} :
          /\ retc' = r
          /\ timerid' = IF r = 0 THEN "armed" ELSE "deleted"
    /\ pc' = "setupReturn"
    /\ UNCHANGED <<led, i2c, i2cTransaction, txBuffer, rxBuffer, temperature,
                   temperatureC, temperatureF, temperatureMutex, semTimer,
                   reader, rhist, hist>>

\* retc = setupTimer(&semTimer, &timerid, 1, 0); if (retc != 0) while (1);
SetupReturn ==
    /\ pc = "setupReturn"
    /\ pc' = IF retc # 0 THEN "haltTimer" ELSE "loopTop"
    /\ UNCHANGED <<led, i2c, i2cTransaction, txBuffer, rxBuffer, temperature,
                   temperatureC, temperatureF, temperatureMutex, semTimer,
                   timerid, retc, reader, rhist, rhist, hist>>

\* while (1); after a failed set-up or a failed sem_wait
Spin ==
    /\ pc \in Halted
    /\ UNCHANGED vars

(***************************************************************************)
(* temperatureThread: the sampling loop.                                   *)
(***************************************************************************)
\* What one I2C_transfer call puts on the bus: the slave addressed, the bytes
\* written and the number of bytes asked for.
TransferOf(txn, tx) ==
    [slaveAddress |-> txn.slaveAddress,
     written      |-> SubSeq(tx, 1, txn.writeCount),
     readCount    |-> txn.readCount]

\* Mutant of LoopTop: the transfer counts are set once, before the loop, and
\* not again at the top of an iteration.
LoopTop_CountsKept ==
    /\ pc = "loopTop"
    /\ txBuffer' = <<SHT31_RE, SHT31_CLK_STR>>
    /\ pc' = "command"
    /\ cycles' = cycles + 1
    /\ cmdOk' = "none"
    /\ resOk' = "none"
    /\ xfers' = <<>>
    /\ delayed' = 0
    /\ atStart' = <<temperatureC, temperatureF, led>>
    /\ UNCHANGED <<led, i2c, i2cTransaction, rxBuffer, temperature,
                   temperatureC, temperatureF, temperatureMutex, semTimer,
                   timerid, retc, reader, rhist, ticksPosted, waitsDone,
                   cmdCycles, stampC, stampF, stampLed, lockedAtLed>>

\* txBuffer[0] = SHT31_RE; txBuffer[1] = SHT31_CLK_STR; writeCount = 2; readCount = 0;
LoopTop ==
    /\ pc = "loopTop"
    /\ txBuffer' = <<SHT31_RE, SHT31_CLK_STR>>
    /\ i2cTransaction' = [i2cTransaction EXCEPT !.writeCount = 2, !.readCount = 0]
    /\ pc' = "command"
    /\ cycles' = cycles + 1
    /\ cmdOk' = "none"
    /\ resOk' = "none"
    /\ xfers' = <<>>
    /\ delayed' = 0
    /\ atStart' = <<temperatureC, temperatureF, led>>
    /\ UNCHANGED <<led, i2c, rxBuffer, temperature, temperatureC, temperatureF,
                   temperatureMutex, semTimer, timerid, retc, reader, rhist,
                   ticksPosted, waitsDone, cmdCycles, stampC, stampF, stampLed,
                   lockedAtLed>>

\* Mutant of CommandTransfer: a failed command transfer is taken for fatal
\* and the thread spins.
CommandTransfer_FailureHalts ==
    /\ pc = "command"
    /\ xfers' = Append(xfers, TransferOf(i2cTransaction, txBuffer))
    /\ cmdCycles' = cmdCycles + 1
    /\ \E ok \in BOOLEAN :
          /\ cmdOk' = IF ok THEN "ok" ELSE "fail"
          /\ pc' = IF ok THEN "delay" ELSE "haltWait"
    /\ UNCHANGED <<led, i2c, i2cTransaction, txBuffer, rxBuffer, temperature,
                   temperatureC, temperatureF, temperatureMutex, semTimer,
                   timerid, retc, reader, rhist, ticksPosted, waitsDone, cycles,
                   resOk, delayed, atStart, stampC, stampF, stampLed,
                   lockedAtLed>>

\* Mutant of CommandTransfer: the delay follows the transfer whatever its
\* status.
CommandTransfer_DelayAlways ==
    /\ pc = "command"
    /\ xfers' = Append(xfers, TransferOf(i2cTransaction, txBuffer))
    /\ cmdCycles' = cmdCycles + 1
    /\ \E ok \in BOOLEAN : cmdOk' = IF ok THEN "ok" ELSE "fail"
    /\ pc' = "delay"
    /\ UNCHANGED <<led, i2c, i2cTransaction, txBuffer, rxBuffer, temperature,
                   temperatureC, temperatureF, temperatureMutex, semTimer,
                   timerid, retc, reader, rhist, ticksPosted, waitsDone, cycles,
                   resOk, delayed, atStart, stampC, stampF, stampLed,
                   lockedAtLed>>

\* if (I2C_transfer(i2c, &i2cTransaction)) { usleep(2000); }   -- the call
CommandTransfer ==
    /\ pc = "command"
    /\ xfers' = Append(xfers, TransferOf(i2cTransaction, txBuffer))
    /\ cmdCycles' = cmdCycles + 1
    /\ \E ok \in BOOLEAN :
          /\ cmdOk' = IF ok THEN "ok" ELSE "fail"
          /\ pc' = IF ok THEN "delay" ELSE "setRead"
    /\ UNCHANGED <<led, i2c, i2cTransaction, txBuffer, rxBuffer, temperature,
                   temperatureC, temperatureF, temperatureMutex, semTimer,
                   timerid, retc, reader, rhist, ticksPosted, waitsDone, cycles,
                   resOk, delayed, atStart, stampC, stampF, stampLed,
                   lockedAtLed>>

\* usleep(2000);
SettleDelay ==
    /\ pc = "delay"
    /\ delayed' = delayed + 1
    /\ pc' = "setRead"
    /\ UNCHANGED <<led, i2c, i2cTransaction, txBuffer, rxBuffer, temperature,
                   temperatureC, temperatureF, temperatureMutex, semTimer,
                   timerid, retc, reader, rhist, ticksPosted, waitsDone, cycles,
                   cmdCycles, cmdOk, resOk, xfers, atStart, stampC, stampF,
                   stampLed, lockedAtLed>>

\* i2cTransaction.writeCount = 0; i2cTransaction.readCount = 6;
SetRead ==
    /\ pc = "setRead"
    /\ i2cTransaction' = [i2cTransaction EXCEPT !.writeCount = 0, !.readCount = 6]
    /\ pc' = "result"
    /\ UNCHANGED <<led, i2c, txBuffer, rxBuffer, temperature, temperatureC,
                   temperatureF, temperatureMutex, semTimer, timerid, retc,
                   reader, rhist, hist>>

\* Mutant of ResultTransfer: the status of the transfer is not tested, the
\* body of the if runs after a failed transfer too.
ResultTransfer_StatusIgnored(frames) ==
    /\ pc = "result"
    /\ xfers' = Append(xfers, TransferOf(i2cTransaction, txBuffer))
    /\ \/ \E frame \in frames :
             /\ rxBuffer' = SubSeq(frame, 1, i2cTransaction.readCount)
             /\ resOk' = "ok"
       \/ /\ rxBuffer' = IndeterminateSeq
          /\ resOk' = "fail"
    /\ pc' = "extract"
    /\ UNCHANGED <<led, i2c, i2cTransaction, txBuffer, temperature,
                   temperatureC, temperatureF, temperatureMutex, semTimer,
                   timerid, retc, reader, rhist, ticksPosted, waitsDone, cycles,
                   cmdCycles, cmdOk, delayed, atStart, stampC, stampF,
                   stampLed, lockedAtLed>>

\* Mutant of ResultTransfer: the sample of the first iteration is discarded
\* as a warm-up.
ResultTransfer_WarmUp(frames) ==
    /\ pc = "result"
    /\ xfers' = Append(xfers, TransferOf(i2cTransaction, txBuffer))
    /\ \/ /\ resOk' = "ok"
          /\ pc' = IF cycles = 1 THEN "wait" ELSE "extract"
          /\ \E frame \in frames :
                rxBuffer' = SubSeq(frame, 1, i2cTransaction.readCount)
       \/ /\ resOk' = "fail"
          /\ pc' = "wait"
          /\ rxBuffer' = IndeterminateSeq
    /\ UNCHANGED <<led, i2c, i2cTransaction, txBuffer, temperature,
                   temperatureC, temperatureF, temperatureMutex, semTimer,
                   timerid, retc, reader, rhist, ticksPosted, waitsDone, cycles,
                   cmdCycles, cmdOk, delayed, atStart, stampC, stampF,
                   stampLed, lockedAtLed>>

\* if (I2C_transfer(i2c, &i2cTransaction)) { ... }   -- the call; the sensor
\* answers with one of frames.  A failed transfer leaves the receive buffer
\* in an unknown state and skips the body of the if.
ResultTransfer(frames) ==
    /\ pc = "result"
    /\ xfers' = Append(xfers, TransferOf(i2cTransaction, txBuffer))
    /\ \/ /\ resOk' = "ok"
          /\ pc' = "extract"
          /\ \E frame \in frames :
                rxBuffer' = SubSeq(frame, 1, i2cTransaction.readCount)
       \/ /\ resOk' = "fail"
          /\ pc' = "wait"
          /\ rxBuffer' = IndeterminateSeq
    /\ UNCHANGED <<led, i2c, i2cTransaction, txBuffer, temperature,
                   temperatureC, temperatureF, temperatureMutex, semTimer,
                   timerid, retc, reader, rhist, ticksPosted, waitsDone, cycles,
                   cmdCycles, cmdOk, delayed, atStart, stampC, stampF,
                   stampLed, lockedAtLed>>

\* temperature = ((rxBuffer[0] << 8) | (rxBuffer[1]));
Extract ==
    /\ pc = "extract"
    /\ temperature' = RawOf(rxBuffer)
    /\ pc' = "lock"
    /\ UNCHANGED <<led, i2c, i2cTransaction, txBuffer, rxBuffer, temperatureC,
                   temperatureF, temperatureMutex, semTimer, timerid, retc,
                   reader, rhist, hist>>

\* Mutant of Lock: the loop enters its critical section without taking the
\* mutex.
Lock_NotTaken ==
    /\ pc = "lock"
    /\ pc' = "storeC"
    /\ UNCHANGED <<led, i2c, i2cTransaction, txBuffer, rxBuffer, temperature,
                   temperatureC, temperatureF, temperatureMutex, semTimer,
                   timerid, retc, reader, rhist, hist>>

\* pthread_mutex_lock(&temperatureMutex);
Lock ==
    /\ pc = "lock"
    /\ temperatureMutex = "none"
    /\ temperatureMutex' = "sampler"
    /\ pc' = "storeC"
    /\ UNCHANGED <<led, i2c, i2cTransaction, txBuffer, rxBuffer, temperature,
                   temperatureC, temperatureF, semTimer, timerid, retc,
                   reader, rhist, hist>>

\* Mutant of StoreC: the alert is decided and the LED written right after the
\* store to temperatureC, before temperatureF is stored.
StoreC_ThenLed ==
    /\ pc = "storeC"
    /\ temperatureC' = SHT3X_CalcTemperature(temperature)
    /\ stampC' = cycles
    /\ led' = IF FTrunc(temperatureC') >= HIGH_TEMP
              THEN sendAlert(temperatureC')
              ELSE clearAlert(temperatureC')
    /\ stampLed' = cycles
    /\ lockedAtLed' = temperatureMutex
    /\ pc' = "storeF"
    /\ UNCHANGED <<i2c, i2cTransaction, txBuffer, rxBuffer, temperature,
                   temperatureF, temperatureMutex, semTimer, timerid, retc,
                   reader, rhist, ticksPosted, waitsDone, cycles, cmdCycles,
                   cmdOk, resOk, xfers, delayed, atStart, stampF>>

\* temperatureC = SHT3X_CalcTemperature(temperature);
StoreC ==
    /\ pc = "storeC"
    /\ temperatureC' = SHT3X_CalcTemperature(temperature)
    /\ stampC' = cycles
    /\ pc' = "storeF"
    /\ UNCHANGED <<led, i2c, i2cTransaction, txBuffer, rxBuffer, temperature,
                   temperatureF, temperatureMutex, semTimer, timerid, retc,
                   reader, rhist, ticksPosted, waitsDone, cycles, cmdCycles, cmdOk,
                   resOk, xfers, delayed, atStart, stampF, stampLed,
                   lockedAtLed>>

\* Mutant of StoreF: the conversion is applied to temperatureF itself.
StoreF_FromFahrenheit ==
    /\ pc = "storeF"
    /\ temperatureF' = CelsiusToFahrenheit(temperatureF)
    /\ stampF' = cycles
    /\ pc' = "unlock"
    /\ UNCHANGED <<led, i2c, i2cTransaction, txBuffer, rxBuffer, temperature,
                   temperatureC, temperatureMutex, semTimer, timerid, retc,
                   reader, rhist, ticksPosted, waitsDone, cycles, cmdCycles,
                   cmdOk, resOk, xfers, delayed, atStart, stampC, stampLed,
                   lockedAtLed>>

\* temperatureF = temperatureC * 9 / 5 + 32;
StoreF ==
    /\ pc = "storeF"
    /\ temperatureF' = CelsiusToFahrenheit(temperatureC)
    /\ stampF' = cycles
    /\ pc' = "unlock"
    /\ UNCHANGED <<led, i2c, i2cTransaction, txBuffer, rxBuffer, temperature,
                   temperatureC, temperatureMutex, semTimer, timerid, retc,
                   reader, rhist, ticksPosted, waitsDone, cycles, cmdCycles, cmdOk,
                   resOk, xfers, delayed, atStart, stampC, stampLed,
                   lockedAtLed>>

\* Mutant of Unlock: the mutex is still held when the alert is decided.
Unlock_Late ==
    /\ pc = "unlock"
    /\ pc' = "alert"
    /\ UNCHANGED <<led, i2c, i2cTransaction, txBuffer, rxBuffer, temperature,
                   temperatureC, temperatureF, temperatureMutex, semTimer,
                   timerid, retc, reader, rhist, hist>>

\* pthread_mutex_unlock(&temperatureMutex);
Unlock ==
    /\ pc = "unlock"
    /\ temperatureMutex' = "none"
    /\ pc' = "alert"
    /\ UNCHANGED <<led, i2c, i2cTransaction, txBuffer, rxBuffer, temperature,
                   temperatureC, temperatureF, semTimer, timerid, retc,
                   reader, rhist, hist>>

\* Mutant of AlertLevel: > in place of >=.
AlertLevel_Strict(t) ==
    IF FTrunc(t) > HIGH_TEMP THEN sendAlert(t) ELSE clearAlert(t)

\* if ((int)temperatureC >= HIGH_TEMP) sendAlert(temperatureC);
\* else clearAlert(temperatureC);
AlertLevel(t) ==
    IF FTrunc(t) >= HIGH_TEMP THEN sendAlert(t) ELSE clearAlert(t)

\* The comparison and the GPIO_write it selects, after the unlock.
Alert ==
    /\ pc = "alert"
    /\ led' = AlertLevel(temperatureC)
    /\ stampLed' = cycles
    /\ lockedAtLed' = temperatureMutex
    /\ pc' = "wait"
    /\ UNCHANGED <<i2c, i2cTransaction, txBuffer, rxBuffer, temperature,
                   temperatureC, temperatureF, temperatureMutex, semTimer,
                   timerid, retc, reader, rhist, ticksPosted, waitsDone, cycles,
                   cmdCycles, cmdOk, resOk, xfers, delayed, atStart, stampC,
                   stampF>>

\* Mutant of SemWait: the wait returns without a post (as sem_trywait would).
SemWait_NoBlock ==
    /\ pc = "wait"
    /\ \/ /\ semTimer' = IF semTimer > 0 THEN semTimer - 1 ELSE semTimer
          /\ retc' = 0
          /\ waitsDone' = IF semTimer > 0 THEN waitsDone + 1 ELSE waitsDone
          /\ pc' = "loopTop"
       \/ /\ retc' = -1
          /\ pc' = "haltWait"
          /\ UNCHANGED <<semTimer, waitsDone>>
    /\ UNCHANGED <<led, i2c, i2cTransaction, txBuffer, rxBuffer, temperature,
                   temperatureC, temperatureF, temperatureMutex, timerid,
                   reader, rhist, ticksPosted, cycles, cmdCycles, cmdOk, resOk,
                   xfers, delayed, atStart, stampC, stampF, stampLed,
                   lockedAtLed>>

\* retc = sem_wait(&semTimer); if (retc == -1) while (1);
\* sem_wait blocks while the count is 0; POSIX lets it fail with -1.
SemWait ==
    /\ pc = "wait"
    /\ \/ /\ semTimer > 0
          /\ semTimer' = semTimer - 1
          /\ retc' = 0
          /\ waitsDone' = waitsDone + 1
          /\ pc' = "loopTop"
       \/ /\ retc' = -1
          /\ pc' = "haltWait"
          /\ UNCHANGED <<semTimer, waitsDone>>
    /\ UNCHANGED <<led, i2c, i2cTransaction, txBuffer, rxBuffer, temperature,
                   temperatureC, temperatureF, temperatureMutex, timerid,
                   reader, rhist, ticksPosted, cycles, cmdCycles, cmdOk, resOk,
                   xfers, delayed, atStart, stampC, stampF, stampLed,
                   lockedAtLed>>

(***************************************************************************)
(* The timer callback.                                                     *)
(***************************************************************************)
\* Mutant of postSem: the semaphore is binary, a post while the count is
\* already 1 is lost.
postSem_Binary ==
    /\ timerid = "armed"
    /\ ticksPosted < MaxTicks
    /\ semTimer' = 1
    /\ ticksPosted' = ticksPosted + 1
    /\ UNCHANGED <<pc, led, i2c, i2cTransaction, txBuffer, rxBuffer,
                   temperature, temperatureC, temperatureF, temperatureMutex,
                   timerid, retc, reader, rhist, waitsDone, cycles, cmdCycles, cmdOk,
                   resOk, xfers, delayed, atStart, stampC, stampF, stampLed,
                   lockedAtLed>>

\* postSem: sem_post(sem), called at each expiry of the armed timer.
postSem ==
    /\ timerid = "armed"
    /\ ticksPosted < MaxTicks
    /\ semTimer' = semTimer + 1
    /\ ticksPosted' = ticksPosted + 1
    /\ UNCHANGED <<pc, led, i2c, i2cTransaction, txBuffer, rxBuffer,
                   temperature, temperatureC, temperatureF, temperatureMutex,
                   timerid, retc, reader, rhist, waitsDone, cycles, cmdCycles, cmdOk,
                   resOk, xfers, delayed, atStart, stampC, stampF, stampLed,
                   lockedAtLed>>

(***************************************************************************)
(* The console-side reader: it takes temperatureMutex, copies the two      *)
(* fields one after the other, releases the mutex and uses the copies.     *)
(***************************************************************************)
ReaderLock ==
    /\ rpc = "idle"
    /\ temperatureMutex = "none"
    /\ temperatureMutex' = "reader"
    /\ rpc' = "readC"
    /\ UNCHANGED <<pc, led, i2c, i2cTransaction, txBuffer, rxBuffer,
                   temperature, temperatureC, temperatureF, semTimer, timerid,
                   retc, readC, readF, rhist, hist>>

ReaderReadC ==
    /\ rpc = "readC"
    /\ readC' = temperatureC
    /\ rStampC' = stampC
    /\ rpc' = "readF"
    /\ UNCHANGED <<prog, readF, rStampF, hist>>

ReaderReadF ==
    /\ rpc = "readF"
    /\ readF' = temperatureF
    /\ rStampF' = stampF
    /\ rpc' = "unlock"
    /\ UNCHANGED <<prog, readC, rStampC, hist>>

ReaderUnlock ==
    /\ rpc = "unlock"
    /\ temperatureMutex' = "none"
    /\ rpc' = "use"
    /\ UNCHANGED <<pc, led, i2c, i2cTransaction, txBuffer, rxBuffer,
                   temperature, temperatureC, temperatureF, semTimer, timerid,
                   retc, readC, readF, rhist, hist>>

ReaderUse ==
    /\ rpc = "use"
    /\ readC' = IndeterminateRec
    /\ readF' = IndeterminateRec
    /\ rStampC' = IndeterminateInt
    /\ rStampF' = IndeterminateInt
    /\ rpc' = "idle"
    /\ UNCHANGED <<prog, hist>>

(***************************************************************************)
(* The specification.                                                      *)
(***************************************************************************)
Next ==
    \/ ConfigLed
    \/ OpenBus
    \/ InitTransaction
    \/ SemInit
    \/ TimerCreate
    \/ TimerSettime
    \/ SetupReturn
    \/ Spin
    \/ LoopTop
    \/ CommandTransfer
    \/ SettleDelay
    \/ SetRead
    \/ ResultTransfer(RxFrames)
    \/ Extract
    \/ Lock
    \/ StoreC
    \/ StoreF
    \/ Unlock
    \/ Alert
    \/ SemWait
    \/ postSem
    \/ ReaderLock
    \/ ReaderReadC
    \/ ReaderReadF
    \/ ReaderUnlock
    \/ ReaderUse

Spec == Init /\ [][Next]_vars

\* The thread alone, up to the sem_wait of its first iteration, with the
\* sensor answering any of the 65536 raw values.
NextEveryRaw ==
    \/ ConfigLed
    \/ OpenBus
    \/ InitTransaction
    \/ SemInit
    \/ TimerCreate
    \/ TimerSettime
    \/ SetupReturn
    \/ Spin
    \/ LoopTop
    \/ CommandTransfer
    \/ SettleDelay
    \/ SetRead
    \/ ResultTransfer(EveryRawFrames)
    \/ Extract
    \/ Lock
    \/ StoreC
    \/ StoreF
    \/ Unlock
    \/ Alert

SpecEveryRaw == Init /\ [][NextEveryRaw]_vars

\* The steps temperatureThread takes on its own: every statement but the two
\* that can block, pthread_mutex_lock and sem_wait, and but the two stores,
\* which StoreStep covers.
ThreadStep ==
    \/ ConfigLed
    \/ OpenBus
    \/ InitTransaction
    \/ SemInit
    \/ TimerCreate
    \/ TimerSettime
    \/ SetupReturn
    \/ LoopTop
    \/ CommandTransfer
    \/ SettleDelay
    \/ SetRead
    \/ ResultTransfer(RxFrames)
    \/ Extract
    \/ Unlock
    \/ Alert

\* A step of StoreC or of StoreF, told by the positions it moves between:
\* whether a store can be taken does not depend on the value it stores.
StoreStep ==
    \/ pc = "storeC" /\ pc' = "storeF"
    \/ pc = "storeF" /\ pc' = "unlock"

\* The scheduling the loop relies on.  The thread is scheduled and the calls
\* it makes return; a thread blocked in pthread_mutex_lock gets the mutex
\* that is released again and again; a reader that took the mutex releases
\* it; sem_wait returns once the count is positive; the armed periodic timer
\* keeps calling postSem (MaxTicks times in the model).  A failure of
\* sem_wait and a new read by the reader are possible but never required.
Fairness ==
    /\ WF_vars(ThreadStep)
    /\ WF_pc(StoreStep)
    /\ SF_vars(Lock)
    /\ WF_vars(SemWait /\ pc' = "loopTop")
    /\ WF_vars(postSem)
    /\ WF_vars(ReaderReadC \/ ReaderReadF \/ ReaderUnlock)

SpecFair == Init /\ [][Next]_vars /\ Fairness

(***************************************************************************)
(* Properties.                                                             *)
(***************************************************************************)
Published == <<temperatureC, temperatureF, led>>

\* The places of the loop between the end of one iteration's work and the
\* first statement of the next.
AtRest == {"wait", "loopTop", "haltWait"}

\* C1: an iteration whose result transfer failed stores neither temperatureC
\* nor temperatureF and does not write the LED: the published pair and the LED
\* are those of the top of the iteration, the iteration issued its two
\* transfers and no more, and the task is at (or past) sem_wait.
C1_ResultFailureLeavesReading ==
    resOk = "fail" =>
        /\ pc \in AtRest
        /\ Published = atStart
        /\ stampC < cycles /\ stampF < cycles /\ stampLed < cycles
        /\ Len(xfers) = 2

\* a failed result transfer after an earlier iteration had published 130 C
\* and lit the LED
C1_Witness ==
    /\ resOk = "fail"
    /\ pc = "wait"
    /\ stampC >= 1
    /\ led = Board_GPIO_LED_ON

\* C2: a reader that copies the two fields while it holds temperatureMutex
\* gets both from the same iteration of the loop (or both from start-up), and
\* they are the pair that is published at that moment.
C2_ReaderSeesOnePair ==
    rpc \in {"unlock", "use"} =>
        /\ rStampC = rStampF
        /\ rpc = "unlock" => readC = temperatureC /\ readF = temperatureF
        /\ rStampC = 0 => readC = FromInt(0) /\ readF = FromInt(0)
        /\ rStampC > 0 => readF = CelsiusToFahrenheit(readC)

\* the reader has copied the pair of the second iteration while the loop is
\* already waiting at the lock with the sample of the third
C2_Witness ==
    /\ rpc = "unlock"
    /\ rStampC = 2
    /\ pc = "lock"
    /\ cycles = 3

\* C3: an iteration whose result transfer succeeded leaves the LED on exactly
\* when the celsius value decoded from the raw sample is >= 30 (as a float,
\* and as the real number 175 * raw / 65535 - 45), and off otherwise; the
\* test the program makes on (int)temperatureC decides as temperatureC >= 30.
C3_AlertIffThirtyOrMore ==
    (pc = "wait" /\ resOk = "ok") =>
        LET raw == RawOf(rxBuffer)
            c   == SHT3X_CalcTemperature(raw)
        IN  /\ led \in {Board_GPIO_LED_ON, Board_GPIO_LED_OFF}
            /\ led = Board_GPIO_LED_ON <=> FGeqInt(c, HIGH_TEMP)
            /\ led = Board_GPIO_LED_ON <=>
                   175 * raw - 45 * UINT16_MAX >= HIGH_TEMP * UINT16_MAX
            /\ FTrunc(temperatureC) >= HIGH_TEMP <=> FGeqInt(temperatureC, HIGH_TEMP)

\* the smallest raw value that decodes to 30 degrees or more has lit the LED
C3_Witness ==
    /\ pc = "wait"
    /\ resOk = "ok"
    /\ temperature = 28087
    /\ FTrunc(temperatureC) = HIGH_TEMP
    /\ led = Board_GPIO_LED_ON

\* C4 as stated: whenever the loop is outside its critical section, from
\* start-up on, temperatureF = temperatureC * 9 / 5 + 32.
C4_PairAffineFromStartup ==
    temperatureMutex # "sampler" => temperatureF = CelsiusToFahrenheit(temperatureC)

\* C4 as amended: the same, once an iteration has stored the pair; until then
\* the pair is the zero-initialised (0, 0).
C4_PairAffineOncePublished ==
    temperatureMutex # "sampler" =>
        IF stampC = 0
        THEN temperatureC = FromInt(0) /\ temperatureF = FromInt(0)
        ELSE temperatureF = CelsiusToFahrenheit(temperatureC)

\* two iterations have published, the second one a different sample
C4_Witness ==
    /\ pc = "wait"
    /\ stampC = 2
    /\ stampF = 2
    /\ atStart[1] # temperatureC
    /\ atStart[1] # FromInt(0)

InitHalted == {"haltOpen", "haltTimer"}

\* C5: a failed I2C_open, or a non-zero return of setupTimer, leads to a halt
\* that is never left; in it no transfer was issued, no iteration started, the
\* pair was never stored, the mutex is not held by the thread and the LED is
\* at the level it was configured to; after a failed open the timer and the
\* semaphore were never created.
C5_SetupFailureHalts ==
    /\ [](/\ (pc \notin {"config", "open"} /\ i2c = "NULL") => pc = "haltOpen"
          /\ pc = "haltOpen" => i2c = "NULL" /\ timerid = "none" /\ semTimer = IndeterminateInt
          /\ pc = "haltTimer" => retc # 0 /\ timerid # "armed"
          /\ pc \in InitHalted =>
                /\ cycles = 0 /\ cmdCycles = 0 /\ xfers = <<>>
                /\ stampC = 0 /\ stampF = 0 /\ stampLed = 0
                /\ temperatureC = FromInt(0) /\ temperatureF = FromInt(0)
                /\ temperatureMutex # "sampler"
                /\ led = Board_GPIO_LED_OFF)
    /\ [][(pc = "setupReturn" /\ retc # 0) => pc' \in {"setupReturn", "haltTimer"}]_vars
    /\ [][(pc \in InitHalted) => (pc' = pc)]_vars

\* timer_settime failed, the timer was deleted and the thread halted, while
\* the reader goes on reading the start-up pair
C5_Witness ==
    /\ pc = "haltTimer"
    /\ timerid = "deleted"
    /\ rpc = "use"

\* C6 as stated: an iteration whose command transfer failed leaves the
\* published pair and the LED as they were at its top.
C6_CommandFailureLeavesReading ==
    (cmdOk = "fail" /\ pc \in AtRest) => Published = atStart

\* C7 as stated: the LED is written while the thread holds temperatureMutex.
C7_LedWrittenInsideLock ==
    stampLed >= 1 => lockedAtLed = "sampler"

\* C7 as amended: the LED is written after the unlock, in the iteration that
\* stored the pair: the thread does not hold temperatureMutex at that moment.
C7_LedWrittenAfterUnlock ==
    /\ stampLed >= 1 => lockedAtLed # "sampler"
    /\ pc = "alert" => temperatureMutex # "sampler" /\ stampC = cycles /\ stampF = cycles

\* the LED was written while a reader held the mutex
C7_Witness ==
    /\ stampLed >= 1
    /\ lockedAtLed = "reader"
    /\ pc = "wait"

\* C8: the LED is never written by an iteration that has not yet stored both
\* fields: the iteration of the last LED write is at most the iteration of
\* the last store to each field.
C8_LedAfterBothStores ==
    /\ stampLed <= stampC
    /\ stampLed <= stampF

\* the second iteration has switched the LED on after storing its pair
C8_Witness ==
    /\ stampLed = 2
    /\ stampC = 2
    /\ stampF = 2
    /\ atStart[3] = Board_GPIO_LED_OFF
    /\ led = Board_GPIO_LED_ON

\* C9: temperatureC changes only in the thread's step at line 235 and
\* temperatureF only in its step at line 236, both with temperatureMutex held
\* by the thread before and after; the LED changes only in the thread's steps
\* at lines 180 and 240-245.  The reader's and the timer callback's steps
\* change none of them.
C9_OnlyTheLoopWrites ==
    [][/\ (temperatureC' # temperatureC \/ stampC' # stampC) =>
             /\ pc = "storeC" /\ pc' = "storeF"
             /\ temperatureMutex = "sampler" /\ temperatureMutex' = "sampler"
       /\ (temperatureF' # temperatureF \/ stampF' # stampF) =>
             /\ pc = "storeF" /\ pc' = "unlock"
             /\ temperatureMutex = "sampler" /\ temperatureMutex' = "sampler"
       /\ (led' # led \/ stampLed' # stampLed) =>
             /\ pc \in {"config", "alert"} /\ pc' # pc
       /\ (rpc' # rpc \/ ticksPosted' # ticksPosted) =>
             UNCHANGED <<temperatureC, temperatureF, led, stampC, stampF, stampLed>>]_vars

\* the pair was stored and the LED lit while the timer posted and the reader read
C9_Witness ==
    /\ stampF >= 1
    /\ led = Board_GPIO_LED_ON
    /\ ticksPosted >= 1
    /\ rpc = "use"
    /\ rStampC >= 1

\* C10 as stated: iterations whose command transfer was issued never
\* outnumber the posts of the timer callback.
C10_CommandsWithinTicks ==
    cmdCycles <= ticksPosted

\* C10 as amended: the first iteration starts without a wait; every later one
\* starts after a sem_wait that consumed a post.
C10_CommandsWithinTicksPlusOne ==
    /\ cmdCycles <= waitsDone + 1
    /\ cycles <= waitsDone + 1
    /\ waitsDone <= ticksPosted

\* the third command transfer was issued after two posts
C10_Witness ==
    /\ cmdCycles = 3
    /\ ticksPosted = 2
    /\ waitsDone = 2

(***************************************************************************)
(* C11: the decode is monotonic.                                           *)
(***************************************************************************)
\* a <= b on floats, compared exactly (no rounding is involved).
FLeq(a, b) ==
    IF a = b THEN TRUE
    ELSE IF a.m <= 0 /\ b.m >= 0 THEN TRUE
    ELSE IF a.m >= 0 /\ b.m <= 0 THEN FALSE
    ELSE IF a.m > 0 THEN MagGeq(b, a)
    ELSE MagGeq(a, b)

\* C11: the decode is monotonically non-decreasing.  Whatever the raw value
\* of a published pair, the pair decoded from the next raw value is not below
\* it, in Celsius and in Fahrenheit; <= being transitive on floats, this is
\* the statement for all raw1 <= raw2 in 0 .. 65535.
C11_DecodeMonotonic ==
    (pc = "wait" /\ resOk = "ok" /\ temperature < UINT16_MAX) =>
        /\ FLeq(temperatureC, SHT3X_CalcTemperature(temperature + 1))
        /\ FLeq(temperatureF,
                CelsiusToFahrenheit(SHT3X_CalcTemperature(temperature + 1)))

\* the pair of the last raw value that has a successor is published
C11_Witness ==
    /\ pc = "wait"
    /\ resOk = "ok"
    /\ temperature = UINT16_MAX - 1
    /\ temperatureC # SHT3X_CalcTemperature(UINT16_MAX)

(***************************************************************************)
(* C12: the range of the decode.                                           *)
(***************************************************************************)
\* C12: the decode is total on 0 .. 65535 (every raw value yields a finite
\* float), it maps 0 to -45.0 and 65535 to 130.0, and the celsius value that
\* is published lies in [-45.0, 130.0] in every state.
C12_DecodeTotalAndBounded ==
    /\ FLeq(FNeg(FromInt(45)), temperatureC)
    /\ FLeq(temperatureC, FromInt(130))
    /\ (pc = "wait" /\ resOk = "ok") =>
          /\ temperature \in 0 .. UINT16_MAX
          /\ temperatureC = SHT3X_CalcTemperature(temperature)
          /\ Abs(temperatureC.m) < Pow2(24)
          /\ (temperature = 0) => (temperatureC = FNeg(FromInt(45)))
          /\ (temperature = UINT16_MAX) => (temperatureC = FromInt(130))

\* the largest raw value was decoded and published
C12_Witness ==
    /\ pc = "wait"
    /\ resOk = "ok"
    /\ temperature = UINT16_MAX
    /\ temperatureC = FromInt(130)

(***************************************************************************)
(* C13: the end-to-end example, first bytes 0x3A 0x98.                     *)
(***************************************************************************)
\* floor(100 * a): a float in hundredths, rounded down.
Hundredths(a) ==
    IF a.e >= 0 THEN a.m * 100 * Pow2(a.e)
    ELSE (a.m * 100) \div Pow2(-a.e)

\* a successful cycle that received 0x3A, 0x98 as its first two bytes is over
Received3A98 ==
    /\ pc = "wait"
    /\ resOk = "ok"
    /\ rxBuffer[1] = 58
    /\ rxBuffer[2] = 152

\* C13 as stated: after a successful cycle whose first two bytes are 0x3A,
\* 0x98 the raw value is 15000, the published celsius is -4.92... (between
\* -4.93 and -4.92), the published fahrenheit is about 23.14 (between 23.13
\* and 23.15) and the LED is off.
C13_EndToEndAsStated ==
    Received3A98 =>
        /\ temperature = 15000
        /\ Hundredths(temperatureC) = -493
        /\ Hundredths(temperatureF) \in {2313, 2314}
        /\ led = Board_GPIO_LED_OFF

\* C13 as amended: the raw value is 15000, the published celsius is
\* -4.945068359375 (the float nearest to 175 * 15000 / 65535 - 45 = -4.9450...),
\* the published fahrenheit is 23.098876953125 (about 23.10) and the LED is
\* off.
C13_EndToEnd ==
    Received3A98 =>
        /\ temperature = 15000
        /\ temperatureC = [m |-> -20255, e |-> -12]
        /\ Hundredths(temperatureC) = -495
        /\ temperatureF = [m |-> 94613, e |-> -12]
        /\ Hundredths(temperatureF) = 2309
        /\ led = Board_GPIO_LED_OFF

\* the frame arrived in a cycle that followed an alert
C13_Witness ==
    /\ Received3A98
    /\ atStart[3] = Board_GPIO_LED_ON
    /\ stampLed = cycles

(***************************************************************************)
(* C14: the two bus transfers of a cycle.                                  *)
(***************************************************************************)
\* the command transfer: 0x2C, 0x06 written to slave 0x44, nothing read
CommandXfer == [slaveAddress |-> 68, written |-> <<44, 6>>, readCount |-> 0]

\* the result transfer: nothing written, six bytes read from slave 0x44
ResultXfer == [slaveAddress |-> 68, written |-> <<>>, readCount |-> 6]

\* the positions of an iteration after its second transfer
AfterResult ==
    {"extract", "lock", "storeC", "storeF", "unlock", "alert", "wait", "haltWait"}

\* C14: every cycle issues exactly two bus transfers, the command and then
\* the result, both to slave 0x44: the command writes the two bytes 0x2C,
\* 0x06 and reads none, the result writes none and reads six.  The counts and
\* the command bytes are set again at the top of every cycle, no third
\* transfer follows and no result transfer precedes the command.
C14_TwoTransfersPerCycle ==
    /\ (pc = "command") =>
          /\ xfers = <<>>
          /\ i2cTransaction = [slaveAddress |-> 68, writeCount |-> 2, readCount |-> 0]
          /\ txBuffer = <<44, 6>>
    /\ (pc \in {"delay", "setRead", "result"}) => (xfers = <<CommandXfer>>)
    /\ (pc \in AfterResult) => (xfers = <<CommandXfer, ResultXfer>>)
    /\ (pc = "loopTop" /\ cycles >= 1) => (xfers = <<CommandXfer, ResultXfer>>)

\* a later cycle is over after both of its transfers failed
C14_Witness ==
    /\ pc = "wait"
    /\ cycles = 3
    /\ cmdOk = "fail"
    /\ resOk = "fail"
    /\ Len(xfers) = 2

(***************************************************************************)
(* C15: the settle delay.                                                  *)
(***************************************************************************)
\* the number of delays an iteration owes to the status of its command
DelaysDue == IF cmdOk = "ok" THEN 1 ELSE 0

\* C15: usleep(2000) runs between the two transfers exactly when the command
\* transfer succeeded.  After a failed command the delay is skipped, nothing
\* is reported (retc keeps the 0 of the set-up or of the last wait, the task
\* does not halt) and the result transfer is issued in the same iteration.
C15_DelayIffCommandOk ==
    /\ (pc = "delay") =>
          /\ cmdOk = "ok"
          /\ delayed = 0
          /\ Len(xfers) = 1
    /\ (pc \in {"setRead", "result"}) =>
          /\ cmdOk \in {"ok", "fail"}
          /\ delayed = DelaysDue
          /\ Len(xfers) = 1
          /\ retc = 0
    /\ (pc \in AfterResult \/ (pc = "loopTop" /\ cycles >= 1)) =>
          /\ cmdOk \in {"ok", "fail"}
          /\ delayed = DelaysDue
          /\ Len(xfers) = 2
          /\ resOk \in {"ok", "fail"}

\* after a failed command the result transfer succeeded, without a delay
C15_Witness ==
    /\ pc = "extract"
    /\ cmdOk = "fail"
    /\ resOk = "ok"
    /\ delayed = 0
    /\ cycles = 2

(***************************************************************************)
(* C16: the loop keeps sampling.                                           *)
(***************************************************************************)
\* the positions of an iteration before its sem_wait
InCycle ==
    {"command", "delay", "setRead", "result", "extract", "lock", "storeC",
     "storeF", "unlock", "alert"}

\* C16: after a successful set-up every iteration, whatever its two transfers
\* returned, comes to wait on the timer semaphore; and, as long as sem_wait
\* does not fail, every post of the timer is answered by a new iteration: the
\* loop started by a successful set-up goes on until it has run once for the
\* start and once for each of the posts of the timer, and waits for the next.
C16_CyclesKeepComing ==
    /\ (pc \in InCycle) ~> (pc = "wait")
    /\ (pc = "loopTop" /\ cycles = 0) ~>
          \/ pc = "haltWait"
          \/ (pc = "wait" /\ cycles = MaxTicks + 1 /\ semTimer = 0)

\* every post of the timer was consumed by an iteration whose transfers failed
C16_Witness ==
    /\ pc = "wait"
    /\ cycles = MaxTicks + 1
    /\ ticksPosted = MaxTicks
    /\ semTimer = 0
    /\ cmdOk = "fail"
    /\ resOk = "fail"

(***************************************************************************)
(* C17: the halts.                                                         *)
(***************************************************************************)
\* C17 as stated: once the bus is open and the timer is set up (the loop has
\* been entered), the thread is never in a halted state.
C17_NoHaltAfterSetup ==
    (i2c = "open" /\ timerid = "armed" /\ (cycles >= 1 \/ pc = "loopTop")) =>
        (pc \notin Halted)

\* C17 as amended: a halt has one of three causes.  Before the loop, I2C_open
\* returned NULL or setupTimer returned non-zero; inside the loop, sem_wait
\* returned -1.  Nothing else halts the thread: whatever the bus transfers
\* return, the thread is halted after a successful set-up only with the -1 of
\* sem_wait in retc, at the end of an iteration that made its two transfers.
C17_HaltOnlyBySetupOrWait ==
    /\ (pc = "haltOpen") => (i2c = "NULL" /\ cycles = 0)
    /\ (pc = "haltTimer") => (i2c = "open" /\ retc # 0 /\ timerid # "armed" /\ cycles = 0)
    /\ (pc = "haltWait") =>
          /\ i2c = "open"
          /\ timerid = "armed"
          /\ cycles >= 1
          /\ retc = 0 - 1
          /\ Len(xfers) = 2
    /\ (cycles >= 1 \/ pc = "loopTop") => (pc \notin InitHalted)

\* sem_wait failed in a later iteration, after both transfers succeeded
C17_Witness ==
    /\ pc = "haltWait"
    /\ cycles = 2
    /\ cmdOk = "ok"
    /\ resOk = "ok"
    /\ retc = 0 - 1

(***************************************************************************)
(* C18: the extent of the critical section.                                *)
(***************************************************************************)
\* the positions at which the thread is between its lock and its unlock
InCriticalSection == {"storeC", "storeF", "unlock"}

\* C18: the thread holds temperatureMutex exactly from its
\* pthread_mutex_lock to its pthread_mutex_unlock, that is across the two
\* stores and nowhere else: not at a bus transfer, the delay, the LED write,
\* sem_wait or a halt; and the mutex taken in an iteration is released before
\* that iteration writes the LED and before it ends.
C18_LockOnlyAcrossStores ==
    /\ (temperatureMutex = "sampler") <=> (pc \in InCriticalSection)
    /\ (pc \in InCriticalSection) => (resOk = "ok" /\ stampLed < cycles)
    /\ (pc \in {"alert", "wait", "loopTop", "haltWait"} /\ stampC = cycles /\ cycles >= 1) =>
          (temperatureMutex # "sampler")

\* the thread holds the mutex between its two stores and keeps the reader out
C18_Witness ==
    /\ pc = "storeF"
    /\ temperatureMutex = "sampler"
    /\ rpc = "idle"
    /\ stampC = cycles
    /\ cycles = 2

(***************************************************************************)
(* C19: the timer callback.                                                *)
(***************************************************************************)
\* C19: a call of postSem (the step that counts a post) adds exactly one to
\* the count of semTimer and changes nothing else of the program: not
\* temperatureC, temperatureF, the mutex, the LED, the I2C handle, the
\* transaction and its buffers, the timer, nor the position and the locals of
\* temperatureThread.
C19_PostSemOnlyPosts ==
    [][(ticksPosted' # ticksPosted) =>
          /\ ticksPosted' = ticksPosted + 1
          /\ semTimer' = semTimer + 1
          /\ UNCHANGED <<pc, led, i2c, i2cTransaction, txBuffer, rxBuffer,
                         temperature, temperatureC, temperatureF,
                         temperatureMutex, timerid, retc, xfers, cycles,
                         reader>>]_vars

\* two posts have piled up while the thread is inside its critical section
C19_Witness ==
    /\ ticksPosted = 2
    /\ semTimer = 2
    /\ pc = "storeF"
    /\ temperatureMutex = "sampler"

(***************************************************************************)
(* C20: the first iteration.                                               *)
(***************************************************************************)
\* C20: there is no warm-up.  An iteration whose result transfer succeeded,
\* the very first one after the set-up like any later one, ends with the pair
\* decoded from its own two bytes published (both stores made in this
\* iteration) and with the LED written in this iteration from that celsius
\* value.
C20_FirstCyclePublishes ==
    (pc = "wait" /\ resOk = "ok") =>
        /\ stampC = cycles
        /\ stampF = cycles
        /\ stampLed = cycles
        /\ temperatureC = SHT3X_CalcTemperature(RawOf(rxBuffer))
        /\ temperatureF = CelsiusToFahrenheit(temperatureC)
        /\ led = AlertLevel(temperatureC)

\* the first iteration, before any post of the timer, raised the alert
C20_Witness ==
    /\ pc = "wait"
    /\ resOk = "ok"
    /\ cycles = 1
    /\ ticksPosted = 0
    /\ waitsDone = 0
    /\ led = Board_GPIO_LED_ON
    /\ atStart = <<FromInt(0), FromInt(0), Board_GPIO_LED_OFF>>

(***************************************************************************)
(* C21: the bytes that make the raw sample.                                *)
(***************************************************************************)
\* the value of the first two received bytes, the first the most significant
FirstTwoBytes == rxBuffer[1] * 256 + rxBuffer[2]

\* C21: after a successful result transfer the raw sample is
\* rxBuffer[0] * 256 + rxBuffer[1], a value in 0 .. 65535, and the published
\* pair and the LED are functions of that value alone: the bytes 2 .. 5 of
\* the frame have no part in them, so frames that differ only in those bytes
\* publish the same pair and drive the LED the same way.
C21_OnlyFirstTwoBytes ==
    (pc = "wait" /\ resOk = "ok") =>
        /\ Len(rxBuffer) = 6
        /\ temperature = FirstTwoBytes
        /\ temperature \in 0 .. 65535
        /\ temperatureC = SHT3X_CalcTemperature(FirstTwoBytes)
        /\ temperatureF = CelsiusToFahrenheit(SHT3X_CalcTemperature(FirstTwoBytes))
        /\ led = AlertLevel(SHT3X_CalcTemperature(FirstTwoBytes))

\* a frame with non-zero bytes 2 .. 5 leaves what the preceding cycle
\* published in place
C21_Witness ==
    /\ pc = "wait"
    /\ resOk = "ok"
    /\ cycles = 2
    /\ SubSeq(rxBuffer, 3, 6) = <<161, 92, 38, 7>>
    /\ FirstTwoBytes = 28087
    /\ atStart = Published

(***************************************************************************)
(* C22: the updates of the published pair per iteration.                   *)
(***************************************************************************)
\* C22 as stated: every iteration updates the published pair, so an
\* iteration that has come to its sem_wait has stored both fields.
C22_UpdatedEveryCycle ==
    (pc = "wait") => (stampC = cycles /\ stampF = cycles)

\* C22 as amended: an iteration makes at most one locked update of the pair,
\* and makes it exactly when its result transfer succeeded.  At the end of an
\* iteration both fields carry its stamp if the result transfer succeeded and
\* neither does if it failed; a failed result transfer leads straight to
\* sem_wait; each field is stored only under the mutex and only if this
\* iteration has not stored it yet; the mutex is taken only by an iteration
\* whose result transfer succeeded and that has not stored yet.
C22_AtMostOneUpdatePerCycle ==
    /\ []((pc \in {"wait", "haltWait"}) =>
            ((resOk = "ok") <=> (stampC = cycles /\ stampF = cycles)))
    /\ []((resOk = "fail") =>
            /\ pc \in AtRest
            /\ (pc # "loopTop") => (stampC < cycles /\ stampF < cycles))
    /\ [][(temperatureC' # temperatureC \/ stampC' # stampC) =>
            (temperatureMutex = "sampler" /\ stampC < cycles /\ stampC' = cycles)]_vars
    /\ [][(temperatureF' # temperatureF \/ stampF' # stampF) =>
            (temperatureMutex = "sampler" /\ stampF < cycles /\ stampF' = cycles)]_vars
    /\ [][(temperatureMutex' = "sampler" /\ temperatureMutex # "sampler") =>
            (resOk = "ok" /\ stampC < cycles /\ stampF < cycles)]_vars

\* the third iteration made the one update of its own and changed what was
\* published
C22_Witness ==
    /\ pc = "wait"
    /\ cycles = 3
    /\ resOk = "ok"
    /\ stampC = 3
    /\ stampLed = 3
    /\ atStart # Published
    /\ waitsDone = 2

(***************************************************************************)
(* C23: what setupTimer returns.                                           *)
(***************************************************************************)
\* setupTimer has returned and the loop has not started yet
SetupReturned ==
    \/ pc \in {"setupReturn", "haltTimer"}
    \/ (pc = "loopTop" /\ cycles = 0)

\* C23: setupTimer returns 0 exactly when sem_init, timer_create and
\* timer_settime all succeeded, and then the timer is armed and the semaphore,
\* initialised to 0, holds the posts made since.  It returns at the first
\* step that fails, with that step's non-zero value and without the later
\* steps: after a failed sem_init no timer was created, after a failed
\* timer_create none exists, after a failed timer_settime the timer was
\* deleted.  A non-zero return leaves no armed timer and no post is ever made.
C23_SetupTimerReturn ==
    /\ (pc \in {"timerCreate", "timerSettime"}) =>
          /\ retc = 0
          /\ semTimer = 0
          /\ ticksPosted = 0
          /\ timerid = (IF pc = "timerCreate" THEN "none" ELSE "created")
    /\ SetupReturned =>
          /\ (retc = 0) <=> (timerid = "armed")
          /\ (retc = 0) => (semTimer = ticksPosted)
          /\ (retc # 0) =>
                /\ timerid \in {"none", "deleted"}
                /\ semTimer \in {IndeterminateInt, 0}
                /\ (semTimer = IndeterminateInt) => (timerid = "none")
                /\ ticksPosted = 0
    /\ (pc = "haltTimer") => (retc # 0)
    /\ (pc = "loopTop" /\ cycles = 0) => (retc = 0)
    /\ (ticksPosted > 0) => (timerid = "armed")

\* arming failed: the timer that was created is deleted and the thread spins
C23_Witness ==
    /\ pc = "haltTimer"
    /\ timerid = "deleted"
    /\ semTimer = 0
    /\ retc # 0

(***************************************************************************)
(* C24: the LED agrees with the published reading.                         *)
(***************************************************************************)
\* C24: whenever the thread is at its sem_wait the LED is on if and only if
\* the stored temperatureC is 30 or more.  This holds before the first
\* successful iteration too (temperatureC is the initial 0.0 and the LED is
\* at the low level it was configured with) and after iterations whose
\* result transfer failed.
C24_LedAgreesWhileWaiting ==
    (pc = "wait") =>
        /\ led \in {Board_GPIO_LED_ON, Board_GPIO_LED_OFF}
        /\ (led = Board_GPIO_LED_ON) <=> FGeqInt(temperatureC, 30)
        /\ (stampC = 0) => (temperatureC = FromInt(0) /\ led = Board_GPIO_LED_OFF)

\* a failed iteration after the one that raised the alert
C24_Witness ==
    /\ pc = "wait"
    /\ cycles = 2
    /\ resOk = "fail"
    /\ stampC = 1
    /\ led = Board_GPIO_LED_ON
    /\ FGeqInt(temperatureC, 30)

(***************************************************************************)
(* C25: the accounting of the posts.                                       *)
(***************************************************************************)
\* the iterations started, the one that the sem_wait just completed is
\* about to start included
CyclesStarted == cycles + (IF pc = "loopTop" THEN 1 ELSE 0)

\* C25: once the timer is armed, the count of semTimer is the number of posts
\* minus the number of completed waits, and it is never negative: no post is
\* lost or merged with another.  Inside the loop the number of iterations
\* started is the number of completed waits plus one.  Hence the thread at
\* sem_wait goes on without blocking exactly when a post is pending, once for
\* each post made while it was busy.
C25_TickAccounting ==
    (timerid = "armed") =>
        /\ semTimer = ticksPosted - waitsDone
        /\ semTimer >= 0
        /\ (cycles >= 1 \/ pc = "loopTop") => (CyclesStarted = waitsDone + 1)
        /\ (pc = "wait") =>
              ((ENABLED (SemWait /\ pc' = "loopTop")) <=> (semTimer > 0))

\* all the posts were made during the first two iterations; one is consumed,
\* two are pending
C25_Witness ==
    /\ pc = "wait"
    /\ ticksPosted = 3
    /\ waitsDone = 1
    /\ semTimer = 2
    /\ cycles = 2

=============================================================================
